---- MODULE Spec2Model ----
(***************************************************************************)
(* Discovergy sensor platform                                              *)
(* (homeassistant/components/discovergy/sensor.py).                        *)
(*                                                                         *)
(* The model follows async_setup_entry step by step (one coordinator per   *)
(* meter, its first refresh, its registration in data.coordinators, the    *)
(* creation of the sensor entities, the single call of                     *)
(* async_add_entities), then the polling of the coordinators, and the      *)
(* value an entity computes from its coordinator's data.                   *)
(*                                                                         *)
(* Objects are modelled by reference: a coordinator is its index in        *)
(* coordinator_objs (allocation order), a description is the pair of the   *)
(* table that holds it and its position there.                             *)
(*                                                                         *)
(* TLC's integers are 32 bits wide, so a scale (1000, 10000000000) is kept *)
(* as the power of ten it is, and a native value as an exact decimal       *)
(* mantissa * 10^exp10 with no trailing zero in the mantissa.              *)
(***************************************************************************)
EXTENDS Integers, Sequences, FiniteSets, TLC

VARIABLES
    meters,               \* data.meters: the list of Meter objects
    ELECTRICITY_SENSORS,  \* module-level description table
    GAS_SENSORS,          \* module-level description table
    pc,                   \* position of async_setup_entry
    coordinator,          \* local `coordinator` of the loop body (0: unbound)
    coordinator_objs,     \* every DataUpdateCoordinator created, in order
    coordinators,         \* data.coordinators: meter id -> coordinator
    entities,             \* local list `entities`
    add_entities_calls,   \* argument lists async_add_entities was called with
    setup_error,          \* exception async_setup_entry ended with
    update_log            \* calls of the update method: fetch outcome, result

vars == <<meters, ELECTRICITY_SENSORS, GAS_SENSORS, pc, coordinator,
          coordinator_objs, coordinators, entities, add_entities_calls,
          setup_error, update_log>>

----------------------------------------------------------------------------
(* Bounds of the model.                                                    *)

\* most keys a fetched reading holds
MaxReadingKeys == 2

\* most calls of the update method recorded in update_log
MaxCalls == 2

\* the meters of the account, in the order data.meters lists them
MeterIds == <<"m1", "m2">>

MeasurementTypes == {"ELECTRICITY", "GAS", "WATER"}

\* data keys a reading may hold
ReadingKeys == {"power1", "phase1Power", "energy", "volume"}

\* what the meter measures at two moments; a reading reports some of it
Samples ==
    { [power1 |-> 1500, phase1Power |-> 2500, energy |-> 30, volume |-> 7000],
      [power1 |-> 40, phase1Power |-> 1500, energy |-> 120, volume |-> 9] }

----------------------------------------------------------------------------
(* Values.                                                                 *)

None == [kind |-> "None"]

Reading(values) == [kind |-> "Reading", values |-> values]

Restrict(f, S) == [k \in S |-> f[k]]

Readings ==
    { Reading(Restrict(s, S)) :
        s \in Samples,
        S \in {T \in SUBSET ReadingKeys : Cardinality(T) <= MaxReadingKeys} }

\* exception classes the client library's get_last_reading may raise, with
\* the classes each is an instance of
ExceptionClasses == {"AccessTokenExpired", "HTTPError", "TimeoutError", "KeyError"}

IsInstance(exc, cls) == cls = "Exception" \/ exc = cls

Raised(exc, cause) == [kind |-> "raise", exc |-> exc, cause |-> cause]

Returned(value) == [kind |-> "return", value |-> value]

\* outcomes of discovergy_instance.get_last_reading(meter_id)
FetchOutcomes ==
    { Returned(r) : r \in Readings } \cup
    { Raised(e, "") : e \in ExceptionClasses }

----------------------------------------------------------------------------
(* Description tables.                                                     *)

DefaultAlternativeKeys == <<>>

DefaultScaleExp10 == 3

DiscovergySensorEntityDescription(key, alternative_keys, scale_exp10) ==
    [key |-> key, alternative_keys |-> alternative_keys, scale_exp10 |-> scale_exp10]

InitGasSensors ==
    << DiscovergySensorEntityDescription("volume", DefaultAlternativeKeys, DefaultScaleExp10) >>

InitElectricitySensors ==
    << DiscovergySensorEntityDescription("power", DefaultAlternativeKeys, DefaultScaleExp10),
       DiscovergySensorEntityDescription("power1", <<"phase1Power">>, DefaultScaleExp10),
       DiscovergySensorEntityDescription("power2", <<"phase2Power">>, DefaultScaleExp10),
       DiscovergySensorEntityDescription("power3", <<"phase3Power">>, DefaultScaleExp10),
       DiscovergySensorEntityDescription("phase1Voltage", DefaultAlternativeKeys, DefaultScaleExp10),
       DiscovergySensorEntityDescription("phase2Voltage", DefaultAlternativeKeys, DefaultScaleExp10),
       DiscovergySensorEntityDescription("phase3Voltage", DefaultAlternativeKeys, DefaultScaleExp10),
       DiscovergySensorEntityDescription("energy", DefaultAlternativeKeys, 10),
       DiscovergySensorEntityDescription("energyOut", DefaultAlternativeKeys, 10) >>

Table(name) ==
    IF name = "ELECTRICITY_SENSORS" THEN ELECTRICITY_SENSORS ELSE GAS_SENSORS

\* the description object a reference designates
Description(ref) == Table(ref.table)[ref.index]

----------------------------------------------------------------------------
(* get_coordinator_for_meter.                                              *)

\* the update method without its last except clause
async_update_data_no_broad_except(fetch) ==
    IF fetch.kind = "return" THEN Returned(fetch.value)
    ELSE IF IsInstance(fetch.exc, "AccessTokenExpired")
        THEN Raised("ConfigEntryAuthFailed", fetch.exc)
    ELSE IF IsInstance(fetch.exc, "HTTPError")
        THEN Raised("UpdateFailed", fetch.exc)
    ELSE fetch

\* The update method closed over the meter: what it does with the outcome
\* of get_last_reading. The except clauses are tried in order.
async_update_data(fetch) ==
    IF fetch.kind = "return" THEN Returned(fetch.value)
    ELSE IF IsInstance(fetch.exc, "AccessTokenExpired")
        THEN Raised("ConfigEntryAuthFailed", fetch.exc)
    ELSE IF IsInstance(fetch.exc, "HTTPError")
        THEN Raised("UpdateFailed", fetch.exc)
    ELSE IF IsInstance(fetch.exc, "Exception")
        THEN Raised("UpdateFailed", fetch.exc)
    ELSE fetch

\* a coordinator whose update method sees the loop's last meter
get_coordinator_for_last_meter(meter) ==
    [meter_id |-> meters[Len(meters)].meter_id, data |-> None]

\* A new coordinator: no data yet, polling the given meter.
get_coordinator_for_meter(meter) ==
    [meter_id |-> meter.meter_id, data |-> None]

----------------------------------------------------------------------------
(* DataUpdateCoordinator, the host platform's part.                        *)

\* coordinator.async_config_entry_first_refresh(): the data the coordinator
\* holds afterwards and the exception the call ends with ("" when none).
async_config_entry_first_refresh(coord, fetch) ==
    LET result == async_update_data(fetch) IN
    IF result.kind = "return"
        THEN [data |-> result.value, raised |-> ""]
    ELSE IF result.exc = "ConfigEntryAuthFailed"
        THEN [data |-> coord.data, raised |-> "ConfigEntryAuthFailed"]
    ELSE [data |-> coord.data, raised |-> "ConfigEntryNotReady"]

\* a later refresh: a failed update leaves the data as it was
async_refresh(coord, fetch) ==
    LET result == async_update_data(fetch) IN
    IF result.kind = "return" THEN result.value ELSE coord.data

----------------------------------------------------------------------------
(* DiscovergySensor.                                                       *)

\* DiscovergySensor.__init__; description and coord are references
DiscovergySensor(data_key, description, meter, coord) ==
    [data_key |-> data_key,
     entity_description |-> description,
     unique_id |-> <<meter.full_serial_number, Description(description).key>>,
     device |-> meter.meter_id,
     coordinator |-> coord]

Pow10(n) == IF n = 0 THEN 1 ELSE IF n = 1 THEN 10 ELSE IF n = 2 THEN 100
    ELSE IF n = 3 THEN 1000 ELSE IF n = 4 THEN 10000 ELSE IF n = 5 THEN 100000
    ELSE IF n = 6 THEN 1000000 ELSE IF n = 7 THEN 10000000
    ELSE IF n = 8 THEN 100000000 ELSE 1000000000

RECURSIVE Decimal(_, _)
\* the number mantissa * 10^exp10, written without trailing zeros
Decimal(mantissa, exp10) ==
    IF mantissa = 0 THEN [kind |-> "float", mantissa |-> 0, exp10 |-> 0]
    ELSE IF mantissa % 10 = 0 THEN Decimal(mantissa \div 10, exp10 + 1)
    ELSE [kind |-> "float", mantissa |-> mantissa, exp10 |-> exp10]

\* raw / scale, the scale being 10^scale_exp10
TrueDiv(raw, scale_exp10) == Decimal(raw, 0 - scale_exp10)

KeyError(key) == [kind |-> "KeyError", key |-> key]

\* native_value reading the description's primary key
native_value_of_primary_key(self) ==
    LET values == coordinator_objs[self.coordinator].data.values
        key == Description(self.entity_description).key
    IN  IF key \in DOMAIN values
            THEN TrueDiv(values[key],
                         Description(self.entity_description).scale_exp10)
            ELSE KeyError(key)

\* DiscovergySensor.native_value
native_value(self) ==
    LET values == coordinator_objs[self.coordinator].data.values IN
    IF self.data_key \in DOMAIN values
        THEN TrueDiv(values[self.data_key],
                     Description(self.entity_description).scale_exp10)
        ELSE KeyError(self.data_key)

----------------------------------------------------------------------------
(* async_setup_entry.                                                      *)

\* the table choice with GAS_SENSORS as the fallback
SensorsForElseGas(meter) ==
    IF meter.measurement_type = "ELECTRICITY" THEN "ELECTRICITY_SENSORS"
    ELSE "GAS_SENSORS"

\* the table chosen for a meter; None for any other measurement type
SensorsFor(meter) ==
    IF meter.measurement_type = "ELECTRICITY" THEN "ELECTRICITY_SENSORS"
    ELSE IF meter.measurement_type = "GAS" THEN "GAS_SENSORS"
    ELSE "None"

\* keys = [description.key] + description.alternative_keys
Keys(description) == <<description.key>> \o description.alternative_keys

RECURSIVE KeyLoopNoCheck(_, _, _, _, _)
\* the key loop without its test of presence
KeyLoopNoCheck(keys, description, meter, coord, values) ==
    IF keys = <<>> THEN <<>>
    ELSE <<DiscovergySensor(Head(keys), description, meter, coord)>>
         \o KeyLoopNoCheck(Tail(keys), description, meter, coord, values)

RECURSIVE KeyLoop(_, _, _, _, _)
\* for key in keys: if key in coordinator.data.values: entities.append(...)
KeyLoop(keys, description, meter, coord, values) ==
    IF keys = <<>> THEN <<>>
    ELSE (IF Head(keys) \in DOMAIN values
              THEN <<DiscovergySensor(Head(keys), description, meter, coord)>>
              ELSE <<>>)
         \o KeyLoop(Tail(keys), description, meter, coord, values)

RECURSIVE DescriptionLoop(_, _, _, _, _)
\* for description in sensors, from position `index` on
DescriptionLoop(table, index, meter, coord, values) ==
    IF index > Len(Table(table)) THEN <<>>
    ELSE KeyLoop(Keys(Table(table)[index]),
                 [table |-> table, index |-> index], meter, coord, values)
         \o DescriptionLoop(table, index + 1, meter, coord, values)

\* the entities the loop body appends for one meter
MeterEntities(meter, coord) ==
    IF SensorsFor(meter) = "None" THEN <<>>
    ELSE DescriptionLoop(SensorsFor(meter), 1, meter, coord,
                         coordinator_objs[coord].data.values)

\* the meter the loop is at: one coordinator is created per iteration
CurrentMeter == meters[Len(coordinator_objs)]

MeterLists ==
    UNION { [1..n -> MeasurementTypes] : n \in 0..Len(MeterIds) }

Meter(k, type) ==
    [meter_id |-> MeterIds[k],
     full_serial_number |-> <<"serial", MeterIds[k]>>,
     measurement_type |-> type]

Init ==
    /\ \E types \in MeterLists :
           meters = [k \in DOMAIN types |-> Meter(k, types[k])]
    /\ ELECTRICITY_SENSORS = InitElectricitySensors
    /\ GAS_SENSORS = InitGasSensors
    /\ pc = "loop"
    /\ coordinator = 0
    /\ coordinator_objs = <<>>
    /\ coordinators = <<>>
    /\ entities = <<>>
    /\ add_entities_calls = <<>>
    /\ setup_error = ""
    /\ update_log = <<>>

\* lines 209-215: next meter, coordinator = get_coordinator_for_meter(...)
CreateCoordinator ==
    /\ pc = "loop"
    /\ Len(coordinator_objs) < Len(meters)
    /\ coordinator_objs' =
           Append(coordinator_objs,
                  get_coordinator_for_meter(meters[Len(coordinator_objs) + 1]))
    /\ coordinator' = Len(coordinator_objs) + 1
    /\ pc' = "first_refresh"
    /\ UNCHANGED <<meters, ELECTRICITY_SENSORS, GAS_SENSORS, coordinators,
                   entities, add_entities_calls, setup_error, update_log>>

\* line 216: await coordinator.async_config_entry_first_refresh()
FirstRefresh ==
    /\ pc = "first_refresh"
    /\ \E fetch \in FetchOutcomes :
        LET after == async_config_entry_first_refresh(
                         coordinator_objs[coordinator], fetch) IN
        /\ coordinator_objs' =
               [coordinator_objs EXCEPT ![coordinator].data = after.data]
        /\ setup_error' = after.raised
        /\ pc' = IF after.raised = "" THEN "register" ELSE "failed"
    /\ UNCHANGED <<meters, ELECTRICITY_SENSORS, GAS_SENSORS, coordinator,
                   coordinators, entities, add_entities_calls, update_log>>

\* line 219: data.coordinators[meter.get_meter_id()] = coordinator
RegisterCoordinator ==
    /\ pc = "register"
    /\ coordinators' =
           [m \in (DOMAIN coordinators) \cup {CurrentMeter.meter_id} |->
               IF m = CurrentMeter.meter_id THEN coordinator ELSE coordinators[m]]
    /\ pc' = "sensors"
    /\ UNCHANGED <<meters, ELECTRICITY_SENSORS, GAS_SENSORS, coordinator,
                   coordinator_objs, entities, add_entities_calls,
                   setup_error, update_log>>

\* lines 221-236, but for the description tables
CreateEntitiesBody ==
    /\ pc = "sensors"
    /\ entities' = entities \o MeterEntities(CurrentMeter, coordinator)
    /\ pc' = "loop"
    /\ UNCHANGED <<meters, coordinator, coordinator_objs, coordinators,
                   add_entities_calls, setup_error, update_log>>

\* keys built in place:
\* keys = description.alternative_keys; keys.insert(0, description.key)
KeysInPlace(table) ==
    [x \in DOMAIN table |->
        [table[x] EXCEPT !.alternative_keys = Keys(table[x])]]

CreateEntitiesKeysInPlace ==
    /\ CreateEntitiesBody
    /\ ELECTRICITY_SENSORS' =
           IF SensorsFor(CurrentMeter) = "ELECTRICITY_SENSORS"
               THEN KeysInPlace(ELECTRICITY_SENSORS) ELSE ELECTRICITY_SENSORS
    /\ GAS_SENSORS' =
           IF SensorsFor(CurrentMeter) = "GAS_SENSORS"
               THEN KeysInPlace(GAS_SENSORS) ELSE GAS_SENSORS

\* lines 221-236: the tables are read, never written
CreateEntities ==
    /\ CreateEntitiesBody
    /\ UNCHANGED <<ELECTRICITY_SENSORS, GAS_SENSORS>>

\* async_add_entities called in the loop body, once per meter
AddEntitiesInLoop ==
    /\ pc = "loop"
    /\ Len(add_entities_calls) < Len(coordinator_objs)
    /\ add_entities_calls' = Append(add_entities_calls, entities)
    /\ pc' = IF Len(coordinator_objs) = Len(meters) THEN "done" ELSE "loop"
    /\ UNCHANGED <<meters, ELECTRICITY_SENSORS, GAS_SENSORS, coordinator,
                   coordinator_objs, coordinators, entities, setup_error,
                   update_log>>

\* line 238: async_add_entities(entities, False), after the loop
AddEntities ==
    /\ pc = "loop"
    /\ Len(coordinator_objs) = Len(meters)
    /\ add_entities_calls' = Append(add_entities_calls, entities)
    /\ pc' = "done"
    /\ UNCHANGED <<meters, ELECTRICITY_SENSORS, GAS_SENSORS, coordinator,
                   coordinator_objs, coordinators, entities, setup_error,
                   update_log>>

\* the entities the platform holds
AddedEntities ==
    IF add_entities_calls = <<>> THEN <<>> ELSE add_entities_calls[1]

\* a coordinator polls while an added entity listens to it
HasListeners(c) ==
    \E n \in DOMAIN AddedEntities : AddedEntities[n].coordinator = c

\* a scheduled refresh of one coordinator
Refresh ==
    /\ pc = "done"
    /\ \E c \in DOMAIN coordinator_objs, fetch \in FetchOutcomes :
        /\ HasListeners(c)
        /\ coordinator_objs' =
               [coordinator_objs EXCEPT
                   ![c].data = async_refresh(coordinator_objs[c], fetch)]
    /\ UNCHANGED <<meters, ELECTRICITY_SENSORS, GAS_SENSORS, pc, coordinator,
                   coordinators, entities, add_entities_calls, setup_error,
                   update_log>>

NextSetup ==
    \/ CreateCoordinator
    \/ FirstRefresh
    \/ RegisterCoordinator
    \/ CreateEntities
    \/ AddEntities

\* async_setup_entry alone
SpecSetup == Init /\ [][NextSetup]_vars

Next ==
    \/ NextSetup
    \/ Refresh

\* async_setup_entry, then the polling
Spec == Init /\ [][Next]_vars

----------------------------------------------------------------------------
(* The update method on its own: every outcome of get_last_reading.        *)

InitUpdate ==
    /\ meters = <<>>
    /\ ELECTRICITY_SENSORS = InitElectricitySensors
    /\ GAS_SENSORS = InitGasSensors
    /\ pc = "update"
    /\ coordinator = 0
    /\ coordinator_objs = <<>>
    /\ coordinators = <<>>
    /\ entities = <<>>
    /\ add_entities_calls = <<>>
    /\ setup_error = ""
    /\ update_log = <<>>

\* one call of the coordinator's update method
UpdateCall ==
    /\ pc = "update"
    /\ Len(update_log) < MaxCalls
    /\ \E fetch \in FetchOutcomes :
           update_log' = Append(update_log,
                                [fetch |-> fetch, result |-> async_update_data(fetch)])
    /\ UNCHANGED <<meters, ELECTRICITY_SENSORS, GAS_SENSORS, pc, coordinator,
                   coordinator_objs, coordinators, entities, add_entities_calls,
                   setup_error>>

NextUpdate == UpdateCall

SpecUpdate == InitUpdate /\ [][NextUpdate]_vars

----------------------------------------------------------------------------
(* Vocabulary of the properties.                                           *)

\* the loop body has run to its end for the meter at position k
Processed(k) ==
    \/ k < Len(coordinator_objs)
    \/ k = Len(coordinator_objs) /\ pc \in {"loop", "done"}

\* the coordinators created for the meter at position k
CoordinatorsOf(k) ==
    {c \in DOMAIN coordinator_objs :
        coordinator_objs[c].meter_id = meters[k].meter_id}

\* the entities created for the meter at position k from the description ref
EntitiesOf(k, ref) ==
    {n \in DOMAIN entities :
        /\ entities[n].device = meters[k].meter_id
        /\ entities[n].entity_description = ref}

EntitiesOfMeter(k) ==
    {n \in DOMAIN entities : entities[n].device = meters[k].meter_id}

TableOfType(type) ==
    IF type = "ELECTRICITY" THEN "ELECTRICITY_SENSORS"
    ELSE IF type = "GAS" THEN "GAS_SENSORS" ELSE "None"

InitTable(name) ==
    IF name = "ELECTRICITY_SENSORS" THEN InitElectricitySensors
    ELSE IF name = "GAS_SENSORS" THEN InitGasSensors ELSE <<>>

\* the description references of the table a measurement type selects
RefsOfType(type) ==
    {[table |-> TableOfType(type), index |-> x] :
        x \in DOMAIN InitTable(TableOfType(type))}

KeySet(ref) ==
    LET d == InitTable(ref.table)[ref.index] IN
    {d.key} \cup {d.alternative_keys[x] : x \in DOMAIN d.alternative_keys}

\* the keys of the reading the coordinator c holds
HeldKeys(c) ==
    IF coordinator_objs[c].data.kind = "Reading"
        THEN DOMAIN coordinator_objs[c].data.values ELSE {}

Applicable(k, ref) ==
    \E c \in CoordinatorsOf(k) : KeySet(ref) \cap HeldKeys(c) # {}

----------------------------------------------------------------------------
(* Properties.                                                             *)

\* C1: during async_setup_entry an entity exists for a meter only if its
\* data_key is one of its description's keys and is a key of the values of
\* the first reading of that meter's coordinator; a description of the
\* meter's table none of whose keys is in that reading has no entity for
\* the meter, and setup only ever fails in a first refresh, leaving the
\* failing coordinator without data.
C1_EntityOnlyForPresentKey ==
    /\ \A n \in DOMAIN entities :
        /\ entities[n].data_key \in KeySet(entities[n].entity_description)
        /\ \A k \in DOMAIN meters :
              meters[k].meter_id = entities[n].device =>
                  /\ CoordinatorsOf(k) # {}
                  /\ \A c \in CoordinatorsOf(k) : entities[n].data_key \in HeldKeys(c)
    /\ \A k \in DOMAIN meters :
          Processed(k) =>
              \A ref \in RefsOfType(meters[k].measurement_type) :
                  ~Applicable(k, ref) => EntitiesOf(k, ref) = {}
    /\ pc = "failed" =>
          /\ setup_error \in {"ConfigEntryAuthFailed", "ConfigEntryNotReady"}
          /\ coordinator_objs[Len(coordinator_objs)].data = None

\* setup is over, an entity was created under an alternative key, and a gas
\* meter whose first reading has no volume got no entity
C1_Witness ==
    /\ pc = "done"
    /\ \E n \in DOMAIN entities : entities[n].data_key = "phase1Power"
    /\ \E k \in DOMAIN meters :
        /\ meters[k].measurement_type = "GAS"
        /\ HeldKeys(coordinators[meters[k].meter_id]) # {}
        /\ "volume" \notin HeldKeys(coordinators[meters[k].meter_id])
        /\ EntitiesOfMeter(k) = {}

\* C2: for every meter whose loop body has run and every description of
\* the table selected for it, exactly one entity exists when the
\* description is applicable to the meter's first reading.
C2_ExactlyOneEntityPerApplicableDescription ==
    \A k \in DOMAIN meters :
        Processed(k) =>
            \A ref \in RefsOfType(meters[k].measurement_type) :
                Applicable(k, ref) => Cardinality(EntitiesOf(k, ref)) = 1

\* C3 (state part): one coordinator per meter reached by the loop, each for
\* its own meter; data.coordinators maps a meter id to the coordinator
\* created for that meter, every meter once setup is done; every entity
\* references the coordinator of its own meter.
C3_CoordinatorPerMeter ==
    /\ Len(coordinator_objs) <= Len(meters)
    /\ \A k \in DOMAIN meters :
          Cardinality(CoordinatorsOf(k)) =
              IF k <= Len(coordinator_objs) THEN 1 ELSE 0
    /\ \A id \in DOMAIN coordinators :
          /\ coordinators[id] \in DOMAIN coordinator_objs
          /\ coordinator_objs[coordinators[id]].meter_id = id
    /\ pc = "done" =>
          /\ Len(coordinator_objs) = Len(meters)
          /\ DOMAIN coordinators = {meters[k].meter_id : k \in DOMAIN meters}
    /\ \A n \in DOMAIN entities :
          /\ entities[n].coordinator \in DOMAIN coordinator_objs
          /\ coordinator_objs[entities[n].coordinator].meter_id = entities[n].device
          /\ entities[n].device \in DOMAIN coordinators
          /\ coordinators[entities[n].device] = entities[n].coordinator

\* C3 (step part): once setup is done no step creates a coordinator,
\* changes data.coordinators or changes which meter a coordinator polls.
C3_NoCoordinatorChange ==
    pc = "done" =>
        /\ coordinators' = coordinators
        /\ Len(coordinator_objs') = Len(coordinator_objs)
        /\ \A c \in DOMAIN coordinator_objs :
              coordinator_objs'[c].meter_id = coordinator_objs[c].meter_id

\* C3: after async_setup_entry exactly one coordinator exists per meter,
\* data.coordinators maps each meter id to it, every entity references its
\* own meter's coordinator, and later refreshes create or replace none.
C3_OneCoordinatorPerMeter ==
    []C3_CoordinatorPerMeter /\ [][C3_NoCoordinatorChange]_vars

\* two meters with entities each, after a refresh that dropped a key
C3_Witness ==
    /\ pc = "done"
    /\ Len(meters) = 2
    /\ EntitiesOfMeter(1) # {}
    /\ EntitiesOfMeter(2) # {}
    /\ \E n \in DOMAIN entities :
          entities[n].data_key \notin HeldKeys(entities[n].coordinator)

\* the scale the description tables give a description key, as a power of ten
ScaleExp10Of(key) == IF key \in {"energy", "energyOut"} THEN 10 ELSE 3

\* value * 10^scale_exp10 = raw, for a value that is a number
IsQuotient(value, raw, scale_exp10) ==
    /\ value.kind = "float"
    /\ value.exp10 + scale_exp10 \in 0..9
    /\ raw % Pow10(value.exp10 + scale_exp10) = 0
    /\ raw \div Pow10(value.exp10 + scale_exp10) = value.mantissa

\* C4: whenever the reading an added entity's coordinator holds has a value
\* under the entity's data_key, native_value is that value divided by the
\* scale of the entity's description: 10^3, or 10^10 for energy and
\* energyOut.
C4_NativeValueIsScaledLatestValue ==
    \A n \in DOMAIN AddedEntities :
        LET self == AddedEntities[n]
            held == coordinator_objs[self.coordinator].data
        IN  /\ held.kind = "Reading"
            /\ self.data_key \in DOMAIN held.values =>
                  IsQuotient(native_value(self), held.values[self.data_key],
                             ScaleExp10Of(InitTable(self.entity_description.table)
                                              [self.entity_description.index].key))

\* after a refresh (the reading held no longer has the key of another entity
\* of the same coordinator) an entity created under an alternative key reads
\* its own key while the primary key is there too, and an energy entity
\* reads through the scale 10^10
C4_Witness ==
    /\ \E n, o \in DOMAIN AddedEntities :
        /\ AddedEntities[n].coordinator = AddedEntities[o].coordinator
        /\ AddedEntities[n].data_key = "phase1Power"
        /\ {"phase1Power", "power1"} \subseteq HeldKeys(AddedEntities[n].coordinator)
        /\ AddedEntities[o].data_key \notin HeldKeys(AddedEntities[o].coordinator)
    /\ \E n \in DOMAIN AddedEntities :
        /\ AddedEntities[n].data_key = "energy"
        /\ "energy" \in HeldKeys(AddedEntities[n].coordinator)
        /\ native_value(AddedEntities[n]).exp10 < 0 - 3

\* C5: every call of the update method ends in exactly one of: the fetched
\* reading returned unchanged (the fetch succeeded), ConfigEntryAuthFailed
\* (the fetch raised AccessTokenExpired), UpdateFailed (the fetch raised
\* HTTPError or anything else); no exception of the client library leaves
\* it unchanged.
C5_UpdateOutcome ==
    \A n \in DOMAIN update_log :
        LET fetch == update_log[n].fetch
            result == update_log[n].result
        IN  /\ fetch.kind = "return" => result = Returned(fetch.value)
            /\ fetch.kind = "raise" =>
                  /\ result.kind = "raise"
                  /\ result.exc \notin ExceptionClasses
                  /\ result.cause = fetch.exc
                  /\ result.exc = IF fetch.exc = "AccessTokenExpired"
                                      THEN "ConfigEntryAuthFailed"
                                      ELSE "UpdateFailed"

\* a call whose fetch raised AccessTokenExpired and one whose fetch raised
\* something the code names nowhere
C5_Witness ==
    \E n, o \in DOMAIN update_log :
        /\ update_log[n].fetch = Raised("AccessTokenExpired", "")
        /\ update_log[o].fetch = Raised("KeyError", "")

\* C6 (state part): the tables are as loaded, and every entity's description
\* is an entry of the table its meter's type selects, by reference.
C6_TablesAsLoaded ==
    /\ ELECTRICITY_SENSORS = InitElectricitySensors
    /\ GAS_SENSORS = InitGasSensors
    /\ \A n \in DOMAIN entities :
          /\ entities[n].entity_description.table \in {"ELECTRICITY_SENSORS", "GAS_SENSORS"}
          /\ entities[n].entity_description.index \in
                 DOMAIN Table(entities[n].entity_description.table)

\* C6 (step part): no step writes a table.
C6_TablesNotWritten ==
    /\ ELECTRICITY_SENSORS' = ELECTRICITY_SENSORS
    /\ GAS_SENSORS' = GAS_SENSORS

\* C6: GAS_SENSORS and ELECTRICITY_SENSORS are left unchanged by setup,
\* entity construction and refreshes, and entities built from one
\* description hold that one description.
C6_DescriptionsReadOnly ==
    []C6_TablesAsLoaded /\ [][C6_TablesNotWritten]_vars

\* two meters each have an entity of the same description, and a refresh
\* took place
C6_Witness ==
    /\ pc = "done"
    /\ \E n, o \in DOMAIN entities :
        /\ entities[n].device # entities[o].device
        /\ entities[n].entity_description = entities[o].entity_description
        /\ entities[n].data_key \notin HeldKeys(entities[n].coordinator)

\* C7: an entity of an ELECTRICITY meter has a description of
\* ELECTRICITY_SENSORS, one of a GAS meter a description of GAS_SENSORS, a
\* meter of any other type has no entity; when setup is done a meter of any
\* other type has its coordinator, refreshed and registered all the same.
C7_TableByMeasurementType ==
    /\ \A k \in DOMAIN meters :
        \A n \in EntitiesOfMeter(k) :
            /\ meters[k].measurement_type \in {"ELECTRICITY", "GAS"}
            /\ entities[n].entity_description \in RefsOfType(meters[k].measurement_type)
    /\ pc = "done" =>
        \A k \in DOMAIN meters :
            /\ meters[k].meter_id \in DOMAIN coordinators
            /\ coordinator_objs[coordinators[meters[k].meter_id]].meter_id
                   = meters[k].meter_id
            /\ coordinator_objs[coordinators[meters[k].meter_id]].data.kind = "Reading"

\* a WATER meter whose first reading has volume and power1 got no entity but
\* a registered coordinator, next to an ELECTRICITY meter with entities
C7_Witness ==
    /\ pc = "done"
    /\ \E k, j \in DOMAIN meters :
        /\ meters[k].measurement_type = "WATER"
        /\ HeldKeys(coordinators[meters[k].meter_id]) = {"volume", "power1"}
        /\ EntitiesOfMeter(k) = {}
        /\ meters[j].measurement_type = "ELECTRICITY"
        /\ EntitiesOfMeter(j) # {}

\* C8: a coordinator is registered, and an entity exists for it, only once
\* its first refresh gave it a reading; async_add_entities is called at most
\* once, only after the loop has run for every meter, with the entities of
\* all meters (at least one per description applicable to a meter's first
\* reading), and exactly once when setup is done; when a first refresh
\* failed, setup ended with the error and async_add_entities was not called.
C8_SetupOrdering ==
    /\ \A id \in DOMAIN coordinators :
          coordinator_objs[coordinators[id]].data.kind = "Reading"
    /\ \A n \in DOMAIN entities :
          /\ coordinator_objs[entities[n].coordinator].data.kind = "Reading"
          /\ entities[n].device \in DOMAIN coordinators
    /\ Len(add_entities_calls) <= 1
    /\ pc = "done" <=> Len(add_entities_calls) = 1
    /\ Len(add_entities_calls) = 1 =>
          /\ \A k \in DOMAIN meters : Processed(k)
          /\ add_entities_calls[1] = entities
          /\ \A k \in DOMAIN meters :
                \A ref \in RefsOfType(meters[k].measurement_type) :
                    Applicable(k, ref) => EntitiesOf(k, ref) # {}
    /\ (\E c \in DOMAIN coordinator_objs :
            coordinator_objs[c].data = None /\ pc # "first_refresh")
        <=> pc = "failed"
    /\ pc = "failed" =>
          /\ setup_error # ""
          /\ add_entities_calls = <<>>

\* the first refresh of the second meter failed after entities had been
\* created for the first
C8_Witness ==
    /\ pc = "failed"
    /\ Len(coordinator_objs) = 2
    /\ EntitiesOfMeter(1) # {}
    /\ add_entities_calls = <<>>

\* C9: the entities passed to async_add_entities have pairwise distinct
\* unique IDs whenever the meters have pairwise distinct serial numbers.
C9_UniqueIdsDistinct ==
    (\A k, j \in DOMAIN meters :
        k # j => meters[k].full_serial_number # meters[j].full_serial_number)
    => \A c \in DOMAIN add_entities_calls :
          \A n, o \in DOMAIN add_entities_calls[c] :
              n # o => add_entities_calls[c][n].unique_id
                           # add_entities_calls[c][o].unique_id

\* C10: once entities are added, every entity's coordinator holds a reading
\* that has the entity's data_key, and native_value is a number.
C10_NativeValueNeverFails ==
    \A n \in DOMAIN AddedEntities :
        LET self == AddedEntities[n] IN
        /\ coordinator_objs[self.coordinator].data.kind = "Reading"
        /\ self.data_key \in HeldKeys(self.coordinator)
        /\ native_value(self).kind = "float"

====
